---- MODULE Spec2Model ----
(***************************************************************************)
(* Route finder of src/A_star_algorithm.py: an A* search over a road       *)
(* MultiDiGraph (nx.astar_path with the geodesic heuristic and weight      *)
(* 'length'), followed by the total distance, the step-by-step directions  *)
(* and the coordinate list computed by main().                             *)
(*                                                                         *)
(* Numbers are integers: lengths are whole metres, coordinates lie on a    *)
(* small grid, bearings are whole degrees.  The geodesic distance is       *)
(* modelled by the rounded-up straight-line distance on the grid, which    *)
(* like the geodesic is a metric (symmetric, zero on equal coordinates,    *)
(* triangle inequality).                                                   *)
(***************************************************************************)
EXTENDS Integers, Sequences, FiniteSets

VARIABLES
    nodes,       \* G.nodes: node id -> [y, x]
    G,           \* the edges of the MultiDiGraph, in insertion order
    src_node,    \* line 51
    dst_node,    \* line 52
    pc,          \* position in main()
    queue,       \* astar_path: the heap, a set of <<f, c, node, dist, parent>>
    c,           \* astar_path: count(), the next tie-break number
    enqueued,    \* astar_path: node -> <<cost, h>>
    explored,    \* astar_path: node -> parent
    g_dest,      \* dist of the popped target entry (the finalized g(destination))
    node,        \* astar_path: cursor of the path reconstruction
    path,        \* line 54
    total_dist,  \* line 63
    i,           \* line 67: enumerate(..., 1)
    diff,        \* line 92, of the last step classified
    turn,        \* lines 76-102, of the last step classified
    steps,       \* the printed steps, line 103
    coords       \* line 106

vars == <<nodes, G, src_node, dst_node, pc, queue, c, enqueued, explored, g_dest,
          node, path, total_dist, i, diff, turn, steps, coords>>

----------------------------------------------------------------------------
(* Bounds of the model                                                     *)

MaxEdges == 3
MaxLen == 2

Nodes == {1, 2, 3}

\* None, as the parent of the source and the end of the predecessor chain
NoParent == 0
\* an edge without the 'length' attribute
NoLen == -1
\* the value of a result main() has not produced
NotComputed == -1

\* the degrees of the circle, lines 89 and 92
FullCircle == 360

\* the lengths an edge can carry, in metres, or none
Lengths == {NoLen} \cup (0 .. MaxLen)

\* Coordinates: node 1 lies one unit west of nodes 2 and 3, which lie at the
\* same place, so the edges between 2 and 3 are zero-length segments
Layouts ==
    { [n \in Nodes |-> IF n = 1 THEN [y |-> 0, x |-> 0]
                       ELSE [y |-> 0, x |-> 1]] }

\* The edges there can be: between distinct nodes, with a length or without
EdgeShapes == { e \in [u : Nodes, v : Nodes, length : Lengths] : e.u # e.v }

----------------------------------------------------------------------------
(* heuristic, lines 24-28                                                  *)

\* the least r with r * r >= s
CeilSqrt(s) == CHOOSE r \in 0 .. s : r * r >= s /\ (r = 0 \/ (r - 1) * (r - 1) < s)

\* geodesic(a, b).meters
Geodesic(a, b) == CeilSqrt((a.y - b.y) * (a.y - b.y) + (a.x - b.x) * (a.x - b.x))

\* a heuristic that overestimates: twice the distance
heuristic_doubled(u, v) == 2 * Geodesic(nodes[u], nodes[v])

heuristic(u, v) == Geodesic(nodes[u], nodes[v])

----------------------------------------------------------------------------
(* The MultiDiGraph                                                        *)

\* G.get_edge_data(u, v): the parallel edges from u to v in key order; the
\* empty sequence stands for None (no edge)
get_edge_data(u, v) == SelectSeq(G, LAMBDA e : e.u = u /\ e.v = v)

RECURSIVE SuccFrom(_, _, _)
SuccFrom(u, k, acc) ==
    IF k > Len(G) THEN acc
    ELSE IF G[k].u = u /\ \A j \in 1 .. Len(acc) : acc[j] # G[k].v
         THEN SuccFrom(u, k + 1, Append(acc, G[k].v))
         ELSE SuccFrom(u, k + 1, acc)

\* only the first successor
G_succ_first(u) ==
    IF SuccFrom(u, 1, <<>>) = <<>> THEN <<>> ELSE <<SuccFrom(u, 1, <<>>)[1]>>

\* G._adj[u]: the successors of u in the order their first edge was added
G_succ(u) == SuccFrom(u, 1, <<>>)

\* attr.get('length', 1) of networkx's weight function
AttrWeight(e) == IF e.length = NoLen THEN 1 ELSE e.length

SeqMin(s) == CHOOSE m \in { s[k] : k \in 1 .. Len(s) } : \A k \in 1 .. Len(s) : m <= s[k]

\* _weight_function(G, 'length') on a multigraph: the least weight among the
\* parallel edges
weight(u, v) ==
    LET d == get_edge_data(u, v)
    IN  SeqMin([k \in 1 .. Len(d) |-> AttrWeight(d[k])])

----------------------------------------------------------------------------
(* nx.astar_path(G, src_node, dst_node, heuristic, weight='length'),       *)
(* called at line 54                                                       *)

EmptyMap == [n \in {} |-> 0]

Put(f, k, val) == [n \in DOMAIN f \cup {k} |-> IF n = k THEN val ELSE f[n]]

\* heappop: the least entry, ordered by f and then by the counter
QueueTop == CHOOSE e \in queue :
                \A o \in queue : e[1] < o[1] \/ (e[1] = o[1] /\ e[2] <= o[2])

\* One neighbour of the loop "for neighbor, w in G_succ[curnode].items()";
\* st is [queue, enqueued, c]
RelaxOne(st, curnode, dist, neighbor) ==
    LET ncost == dist + weight(curnode, neighbor)
        known == neighbor \in DOMAIN st.enqueued
        h     == IF known THEN st.enqueued[neighbor][2]
                 ELSE heuristic(neighbor, dst_node)
    IN  IF known /\ st.enqueued[neighbor][1] <= ncost
        THEN st
        ELSE [queue    |-> st.queue \cup {<<ncost + h, st.c, neighbor, ncost, curnode>>},
              enqueued |-> Put(st.enqueued, neighbor, <<ncost, h>>),
              c        |-> st.c + 1]

RECURSIVE Relax(_, _, _, _, _)
Relax(st, curnode, dist, nbrs, k) ==
    IF k > Len(nbrs) THEN st
    ELSE Relax(RelaxOne(st, curnode, dist, nbrs[k]), curnode, dist, nbrs, k + 1)

\* "if curnode in explored": an entry that is skipped
Stale(e) ==
    /\ e[3] \in DOMAIN explored
    /\ \/ explored[e[3]] = NoParent
       \/ enqueued[e[3]][1] < e[4]

\* the popped entry is the target: start the reconstruction of the path
AstarFound ==
    /\ pc = "astar"
    /\ queue # {}
    /\ QueueTop[3] = dst_node
    /\ queue' = queue \ {QueueTop}
    /\ g_dest' = QueueTop[4]
    /\ path' = <<QueueTop[3]>>
    /\ node' = QueueTop[5]
    /\ pc' = "rebuild"
    /\ UNCHANGED <<nodes, G, src_node, dst_node, c, enqueued, explored,
                   total_dist, i, diff, turn, steps, coords>>

\* the popped entry was explored already and is no improvement: continue
AstarSkip ==
    /\ pc = "astar"
    /\ queue # {}
    /\ QueueTop[3] # dst_node
    /\ Stale(QueueTop)
    /\ queue' = queue \ {QueueTop}
    /\ UNCHANGED <<nodes, G, src_node, dst_node, pc, c, enqueued, explored, g_dest,
                   node, path, total_dist, i, diff, turn, steps, coords>>

\* the popped entry is explored and its outgoing edges are relaxed
AstarExpand ==
    /\ pc = "astar"
    /\ queue # {}
    /\ QueueTop[3] # dst_node
    /\ ~Stale(QueueTop)
    /\ LET e  == QueueTop
           st == Relax([queue |-> queue \ {e}, enqueued |-> enqueued, c |-> c],
                       e[3], e[4], G_succ(e[3]), 1)
       IN  /\ explored' = Put(explored, e[3], e[5])
           /\ queue' = st.queue
           /\ enqueued' = st.enqueued
           /\ c' = st.c
    /\ UNCHANGED <<nodes, G, src_node, dst_node, pc, g_dest,
                   node, path, total_dist, i, diff, turn, steps, coords>>

\* the heap is empty: raise NetworkXNoPath, which main() does not catch
AstarNoPath ==
    /\ pc = "astar"
    /\ queue = {}
    /\ pc' = "nopath"
    /\ UNCHANGED <<nodes, G, src_node, dst_node, queue, c, enqueued, explored, g_dest,
                   node, path, total_dist, i, diff, turn, steps, coords>>

Reverse(s) == [k \in 1 .. Len(s) |-> s[Len(s) + 1 - k]]

\* "while node is not None: path.append(node); node = explored[node]"
RebuildStep ==
    /\ pc = "rebuild"
    /\ node # NoParent
    /\ path' = Append(path, node)
    /\ node' = explored[node]
    /\ UNCHANGED <<nodes, G, src_node, dst_node, pc, queue, c, enqueued, explored,
                   g_dest, total_dist, i, diff, turn, steps, coords>>

\* "path.reverse(); return path"
RebuildDone ==
    /\ pc = "rebuild"
    /\ node = NoParent
    /\ path' = Reverse(path)
    /\ pc' = "total"
    /\ UNCHANGED <<nodes, G, src_node, dst_node, queue, c, enqueued, explored,
                   g_dest, node, total_dist, i, diff, turn, steps, coords>>

----------------------------------------------------------------------------
(* main(), lines 55-108                                                    *)

\* Python's s[j], counted from 0
PyIndex(s, j) == s[j + 1]

\* the pairs closed into a cycle: the last node paired with the first
PathPairs_wrap(p) == [k \in 1 .. Len(p) |-> <<p[k], p[(k % Len(p)) + 1]>>]

\* zip(path[:-1], path[1:])
PathPairs(p) == [k \in 1 .. Len(p) - 1 |-> <<p[k], p[k + 1]>>]

\* list(edge_data.keys())[0]: the edge added first
FirstEdge(d) == d[1]

\* get_edge_length with the default of the search, 1, for an absent length
get_edge_length_default1(u, v) ==
    LET edge_data == get_edge_data(u, v)
    IN  IF Len(edge_data) > 0
        THEN IF FirstEdge(edge_data).length = NoLen THEN 1
             ELSE FirstEdge(edge_data).length
        ELSE 0

\* get_edge_length, lines 56-62
get_edge_length(u, v) ==
    LET edge_data == get_edge_data(u, v)
    IN  IF Len(edge_data) > 0
        THEN IF FirstEdge(edge_data).length = NoLen THEN 0
             ELSE FirstEdge(edge_data).length
        ELSE 0

RECURSIVE SumSeq(_)
SumSeq(s) == IF Len(s) = 0 THEN 0 ELSE s[1] + SumSeq(Tail(s))

\* line 63
TotalDist(p) ==
    LET pairs == PathPairs(p)
    IN  SumSeq([k \in 1 .. Len(pairs) |-> get_edge_length(pairs[k][1], pairs[k][2])])

\* lines 68-75: the street and the length printed for the pair (u, v); with no
\* edge data the edge is {} and both defaults apply (0 stands for the street
\* 'Unnamed Road'; the edges of the model all carry a name)
StepEdge(u, v) ==
    LET edge_data == get_edge_data(u, v)
    IN  IF Len(edge_data) > 0
        THEN [street |-> FirstEdge(edge_data).name,
              length |-> IF FirstEdge(edge_data).length = NoLen THEN 0
                         ELSE FirstEdge(edge_data).length]
        ELSE [street |-> 0, length |-> 0]

\* math.degrees(math.atan2(x, y)) for x, y in -1 .. 1, in (-180, 180];
\* atan2(0, 0) is 0
Atan2Deg(x, y) ==
    CASE x = 0  /\ y >= 0 -> 0
      [] x = 0  /\ y < 0  -> 180
      [] x = 1  /\ y = 1  -> 45
      [] x = 1  /\ y = 0  -> 90
      [] x = 1  /\ y = -1 -> 135
      [] x = -1 /\ y = 1  -> -45
      [] x = -1 /\ y = 0  -> -90
      [] x = -1 /\ y = -1 -> -135

\* bearing, lines 82-89: on the grid the east component is the difference of
\* the x and the north component the difference of the y
bearing(a, b) == (Atan2Deg(b.x - a.x, b.y - a.y) + FullCircle) % FullCircle

\* the test of line 77 off by one
HasPrevEdge_from0(k) == k > 0

\* line 77
HasPrevEdge(k) == k > 1

\* line 78: prev = G.nodes[path[i-1]]
PrevNode(p, k) == PyIndex(p, k - 1)

\* line 92
StepDiff(p, k, u, v) ==
    LET prev == nodes[PrevNode(p, k)]
        curr == nodes[u]
        next_ == nodes[v]
    IN  (bearing(curr, next_) - bearing(prev, curr) + FullCircle) % FullCircle

\* the first threshold taken inclusively
Classify_le45(d) ==
    IF d <= 45 \/ d > 315 THEN "Go straight"
    ELSE IF d < 135 THEN "Turn right"
    ELSE IF d < 225 THEN "Turn back"
    ELSE "Turn left"

\* lines 93-100
Classify(d) ==
    IF d < 45 \/ d > 315 THEN "Go straight"
    ELSE IF d < 135 THEN "Turn right"
    ELSE IF d < 225 THEN "Turn back"
    ELSE "Turn left"

\* line 63, and the loop of line 67 is entered with i = 1
Total ==
    /\ pc = "total"
    /\ total_dist' = TotalDist(path)
    /\ i' = 1
    /\ pc' = "steps"
    /\ UNCHANGED <<nodes, G, src_node, dst_node, queue, c, enqueued, explored,
                   g_dest, node, path, diff, turn, steps, coords>>

\* one iteration of the loop with i = 1: lines 68-75, 101-103
StepStart ==
    /\ pc = "steps"
    /\ i <= Len(PathPairs(path))
    /\ ~HasPrevEdge(i)
    /\ LET u == PathPairs(path)[i][1]
           v == PathPairs(path)[i][2]
       IN  /\ turn' = "Start"
           /\ steps' = Append(steps, [turn |-> "Start",
                                      street |-> StepEdge(u, v).street,
                                      length |-> StepEdge(u, v).length])
    /\ i' = i + 1
    /\ UNCHANGED <<nodes, G, src_node, dst_node, pc, queue, c, enqueued, explored,
                   g_dest, node, path, total_dist, diff, coords>>

\* one iteration of the loop with i > 1: lines 68-100, 103
StepTurn ==
    /\ pc = "steps"
    /\ i <= Len(PathPairs(path))
    /\ HasPrevEdge(i)
    /\ LET u == PathPairs(path)[i][1]
           v == PathPairs(path)[i][2]
           d == StepDiff(path, i, u, v)
       IN  /\ diff' = d
           /\ turn' = Classify(d)
           /\ steps' = Append(steps, [turn |-> Classify(d),
                                      street |-> StepEdge(u, v).street,
                                      length |-> StepEdge(u, v).length])
    /\ i' = i + 1
    /\ UNCHANGED <<nodes, G, src_node, dst_node, pc, queue, c, enqueued, explored,
                   g_dest, node, path, total_dist, coords>>

\* the coordinates as (x, y) instead of (y, x)
Coords_xy(p) == [k \in 1 .. Len(p) |-> <<nodes[p[k]].x, nodes[p[k]].y>>]

\* line 106
Coords(p) == [k \in 1 .. Len(p) |-> <<nodes[p[k]].y, nodes[p[k]].x>>]

\* the loop is over: lines 105-108
RouteCoords ==
    /\ pc = "steps"
    /\ i > Len(PathPairs(path))
    /\ coords' = Coords(path)
    /\ pc' = "done"
    /\ UNCHANGED <<nodes, G, src_node, dst_node, queue, c, enqueued, explored,
                   g_dest, node, path, total_dist, i, diff, turn, steps>>

----------------------------------------------------------------------------
(* The route finder on every graph, source and destination                 *)

\* main() is entered: the graph has its nodes and no edge yet, nothing is
\* computed
Init ==
    /\ nodes \in Layouts
    /\ G = <<>>
    /\ src_node = NoParent
    /\ dst_node = NoParent
    /\ pc = "load"
    /\ queue = {}
    /\ c = 0
    /\ enqueued = EmptyMap
    /\ explored = EmptyMap
    /\ g_dest = NotComputed
    /\ node = NoParent
    /\ path = <<>>
    /\ total_dist = NotComputed
    /\ i = 0
    /\ diff = NotComputed
    /\ turn = ""
    /\ steps = <<>>
    /\ coords = <<>>

\* line 48: the road network is loaded, one more edge of it.  Edges are added
\* source by source (the order of two edges that leave different nodes is read
\* nowhere); the street name of an edge is its insertion number
AddEdge ==
    /\ pc = "load"
    /\ Len(G) < MaxEdges
    /\ \E e \in EdgeShapes :
          /\ IF Len(G) = 0 THEN TRUE ELSE G[Len(G)].u <= e.u
          /\ G' = Append(G, [u |-> e.u, v |-> e.v, length |-> e.length,
                             name |-> Len(G) + 1])
    /\ UNCHANGED <<nodes, src_node, dst_node, pc, queue, c, enqueued, explored, g_dest,
                   node, path, total_dist, i, diff, turn, steps, coords>>

\* lines 49-54: the two addresses are snapped to nodes of the graph and
\* astar_path begins with the source alone in the heap:
\* queue = [(0, next(c), source, 0, None)]
StartSearch ==
    /\ pc = "load"
    /\ src_node' \in Nodes
    /\ dst_node' \in Nodes
    /\ queue' = {<<0, 0, src_node', 0, NoParent>>}
    /\ c' = 1
    /\ pc' = "astar"
    /\ UNCHANGED <<nodes, G, enqueued, explored, g_dest, node, path, total_dist, i,
                   diff, turn, steps, coords>>

Next ==
    \/ AddEdge
    \/ StartSearch
    \/ AstarFound
    \/ AstarSkip
    \/ AstarExpand
    \/ AstarNoPath
    \/ RebuildStep
    \/ RebuildDone
    \/ Total
    \/ StepStart
    \/ StepTurn
    \/ RouteCoords

Spec == Init /\ [][Next]_vars

----------------------------------------------------------------------------
(* The classification of lines 93-100 alone, on every whole bearing        *)
(* difference of the circle                                                *)

ClassifyInit ==
    /\ nodes \in Layouts
    /\ G = <<>>
    /\ src_node = 1
    /\ dst_node = 1
    /\ pc = "classify"
    /\ queue = {}
    /\ c = 0
    /\ enqueued = EmptyMap
    /\ explored = EmptyMap
    /\ g_dest = NotComputed
    /\ node = NoParent
    /\ path = <<>>
    /\ total_dist = NotComputed
    /\ i = 0
    /\ diff \in 0 .. FullCircle - 1
    /\ turn = ""
    /\ steps = <<>>
    /\ coords = <<>>

ClassifyDiff ==
    /\ pc = "classify"
    /\ turn' = Classify(diff)
    /\ pc' = "classified"
    /\ UNCHANGED <<nodes, G, src_node, dst_node, queue, c, enqueued, explored, g_dest,
                   node, path, total_dist, i, diff, steps, coords>>

ClassifySpec == ClassifyInit /\ [][ClassifyDiff]_vars

----------------------------------------------------------------------------
(* Notions the claims are stated with                                      *)

\* the search succeeded and main() ran to its end
Done == pc = "done"

\* the length an edge counts with in the search: its 'length', 1 when absent
EdgeCost(e) == IF e.length = NoLen THEN 1 ELSE e.length

HasEdge(u, v) == \E k \in 1 .. Len(G) : G[k].u = u /\ G[k].v = v

\* the least cost among the parallel edges from u to v
MinCost(u, v) ==
    CHOOSE m \in { EdgeCost(G[k]) : k \in { j \in 1 .. Len(G) : G[j].u = u /\ G[j].v = v } } :
        \A k \in 1 .. Len(G) : (G[k].u = u /\ G[k].v = v) => m <= EdgeCost(G[k])

\* the sequences of nodes that could be routes: a shortest one never repeats a
\* node, and going round a cycle once is covered as well
NodeSeqs == UNION { [1 .. n -> Nodes] : n \in 1 .. Cardinality(Nodes) + 1 }

\* w follows directed edges from the source to the destination
IsRoute(w) ==
    /\ w[1] = src_node
    /\ w[Len(w)] = dst_node
    /\ \A k \in 1 .. Len(w) - 1 : HasEdge(w[k], w[k + 1])

RouteCost(w) == SumSeq([k \in 1 .. Len(w) - 1 |-> MinCost(w[k], w[k + 1])])

\* the nodes reached from the nodes of S along at most k directed edges
RECURSIVE ReachedFrom(_, _)
ReachedFrom(S, k) ==
    IF k = 0 THEN S
    ELSE ReachedFrom(S \cup { G[j].v : j \in { m \in 1 .. Len(G) : G[m].u \in S } }, k - 1)

\* the destination can be reached from the source along directed edges
Reachable == dst_node \in ReachedFrom({src_node}, Cardinality(Nodes))

\* every edge is at least as long as the straight line between its endpoints,
\* so that the heuristic never overestimates
LengthsCoverDistance ==
    \A k \in 1 .. Len(G) : EdgeCost(G[k]) >= Geodesic(nodes[G[k].u], nodes[G[k].v])

\* every edge carries a 'length'
EveryEdgeHasLength == \A k \in 1 .. Len(G) : G[k].length # NoLen

\* the first of the cheapest parallel edges from u to v
CheapestEdge(u, v) ==
    LET d == get_edge_data(u, v)
        k == CHOOSE j \in 1 .. Len(d) :
                 /\ \A m \in 1 .. Len(d) : d[j].length <= d[m].length
                 /\ \A m \in 1 .. j - 1 : d[m].length > d[j].length
    IN  d[k]

\* the change of heading at the start node of step k: from the edge that
\* enters path[k] to the edge that leaves it
HeadingChange(k) ==
    (bearing(nodes[path[k]], nodes[path[k + 1]])
       - bearing(nodes[path[k - 1]], nodes[path[k]]) + FullCircle) % FullCircle

\* the greatest cost an edge counts with in the search
MaxCost == IF MaxLen > 1 THEN MaxLen ELSE 1

\* above the cost any node is first enqueued with: a node is first enqueued
\* from an entry that is no dearer than the first entry of its own node
CostCap == Cardinality(Nodes) * MaxCost + 1

\* the sum over the nodes of the cost each is enqueued with, CostCap when it is
\* not enqueued: every push lowers it by one at least, so there are no more
\* than Cardinality(Nodes) * CostCap pushes
Slack ==
    SumSeq([n \in 1 .. Cardinality(Nodes) |->
              IF n \in DOMAIN enqueued THEN enqueued[n][1] ELSE CostCap])

\* a measure of the work left: the phases of main() in order and, within the
\* search, the reconstruction and the step loop, what each loop has left
Rank ==
    LET N == Cardinality(Nodes)
    IN  CASE pc = "load"    -> 2 * N + 8 + 3 * N * CostCap + (MaxEdges - Len(G))
          [] pc = "astar"   -> 2 * N + 6 + 2 * Slack + Cardinality(queue)
          [] pc = "rebuild" -> N + 4 + (N + 1 - Len(path))
          [] pc = "total"   -> N + 3
          [] pc = "steps"   -> 1 + (Len(path) + 1 - i)
          [] OTHER          -> 0

\* some step of main() can be taken: the guards of the actions, with the
\* predecessor the reconstruction reads being recorded
CanStep ==
    \/ pc = "load"
    \/ pc = "astar"
    \/ pc = "rebuild" /\ (node = NoParent \/ node \in DOMAIN explored)
    \/ pc = "total"
    \/ pc = "steps" /\ i >= 1

----------------------------------------------------------------------------
(* The claims                                                              *)

\* C1, as stated: on every graph with non-negative lengths the returned path
\* costs no more than any node sequence that follows directed edges from the
\* source to the destination.
C1_OptimalOnEveryGraph ==
    (Done /\ EveryEdgeHasLength) => \A w \in NodeSeqs : IsRoute(w) => RouteCost(path) <= RouteCost(w)

\* C1, amended: when every edge is at least as long as the straight-line
\* distance between its endpoints, the returned path costs no more than any
\* node sequence that follows directed edges from the source to the
\* destination.
C1_OptimalWhenLengthsCoverDistance ==
    (Done /\ LengthsCoverDistance) =>
        \A w \in NodeSeqs : IsRoute(w) => RouteCost(path) <= RouteCost(w)

\* a search that had to prefer a two-edge route to a dearer direct edge
C1_Witness ==
    /\ Done
    /\ LengthsCoverDistance
    /\ Len(path) = 3
    /\ HasEdge(src_node, dst_node)
    /\ RouteCost(path) < MinCost(src_node, dst_node)

\* C2: on a graph whose edges all carry a length, the reported total distance
\* is the finalized g(destination) of the search.
C2_TotalIsGDest == (Done /\ EveryEdgeHasLength) => total_dist = g_dest

\* C3: the diff of a step after the first is the change of heading between the
\* previously traversed edge and the step's own edge (stated for edges whose
\* endpoints differ in their coordinates, which have a bearing).
C3_DiffIsHeadingChange ==
    (/\ pc = "steps"
     /\ i > 2
     /\ nodes[path[i - 2]] # nodes[path[i - 1]]
     /\ nodes[path[i - 1]] # nodes[path[i]]) => diff = HeadingChange(i - 1)

\* C4: Straight when diff < 45 or diff > 315, TurnRight when 45 <= diff < 135,
\* TurnBack when 135 <= diff < 225, TurnLeft when 225 <= diff <= 315; exactly
\* one instruction for every diff.
C4_Thresholds ==
    pc = "classified" =>
        /\ (diff < 45 \/ diff > 315)     <=> turn = "Go straight"
        /\ (45 <= diff /\ diff < 135)    <=> turn = "Turn right"
        /\ (135 <= diff /\ diff < 225)   <=> turn = "Turn back"
        /\ (225 <= diff /\ diff <= 315)  <=> turn = "Turn left"
        /\ turn \in {"Go straight", "Turn right", "Turn back", "Turn left"}

\* a boundary value classified
C4_Witness == pc = "classified" /\ diff = 45 /\ turn = "Turn right"

\* C5: the street and the length of a step are those of the cheapest parallel
\* edge of its node pair, the first of them on a tie (stated for the pairs whose
\* parallel edges all carry a length).
C5_StepCarriesCheapestEdge ==
    Done =>
        \A k \in 1 .. Len(steps) :
            LET d == get_edge_data(path[k], path[k + 1])
            IN  (\A m \in 1 .. Len(d) : d[m].length # NoLen) =>
                    /\ steps[k].street = CheapestEdge(path[k], path[k + 1]).name
                    /\ steps[k].length = CheapestEdge(path[k], path[k + 1]).length

\* C6: a path of n >= 2 nodes gets exactly n - 1 steps, one per consecutive
\* node pair in path order; the first is Start and no later one is.
C6_StepsPerPair ==
    (Done /\ Len(path) >= 2) =>
        /\ Len(steps) = Len(path) - 1
        /\ steps[1].turn = "Start"
        /\ \A k \in 2 .. Len(steps) : steps[k].turn # "Start"
        /\ \A k \in 1 .. Len(steps) :
              /\ steps[k].street \in 1 .. Len(G)
              /\ G[steps[k].street].u = path[k]
              /\ G[steps[k].street].v = path[k + 1]

\* a path of three nodes with its two steps
C6_Witness == Done /\ Len(path) = 3 /\ Len(steps) = 2

\* C7, as stated: with source = destination the path has one node, the total
\* distance is 0 and the steps are a single Start step.
C7_SingleStartStep ==
    (Done /\ src_node = dst_node) =>
        /\ path = <<src_node>>
        /\ total_dist = 0
        /\ Len(steps) = 1
        /\ steps[1].turn = "Start"

\* C7, amended: with source = destination the path has one node, the total
\* distance is 0 and there are no steps.
C7_NoSteps ==
    (Done /\ src_node = dst_node) =>
        /\ path = <<src_node>>
        /\ total_dist = 0
        /\ steps = <<>>

\* a finished query from a node to itself, on a graph with edges at that node
C7_Witness ==
    /\ Done
    /\ src_node = dst_node
    /\ \E k \in 1 .. Len(G) : G[k].u = src_node

\* C8: the search terminates; it ends with no route exactly when the
\* destination cannot be reached from the source, and then no path, total
\* distance, steps or coordinates are produced.  Termination: every step
\* lowers Rank, a natural number, so no run takes infinitely many steps, and a
\* run can stop only at the end of main() or with no route.
C8_NoRouteIffUnreachable ==
    /\ [][Rank' < Rank]_vars
    /\ [](Rank >= 0)
    /\ [](pc \in {"done", "nopath"} \/ CanStep)
    /\ [](pc = "nopath" =>
            /\ ~Reachable
            /\ path = <<>>
            /\ total_dist = NotComputed
            /\ steps = <<>>
            /\ coords = <<>>)
    /\ [](pc \in {"rebuild", "total", "steps", "done"} => Reachable)

\* a search that ends with no route although the source has outgoing edges
C8_Witness ==
    /\ pc = "nopath"
    /\ \E k \in 1 .. Len(G) : G[k].u = src_node

\* C9: the lengths of the steps sum to the reported total distance.
C9_StepLengthsSumToTotal ==
    Done => SumSeq([k \in 1 .. Len(steps) |-> steps[k].length]) = total_dist

\* a two-step route over an edge without a length and over parallel edges of
\* different lengths
C9_Witness ==
    /\ Done
    /\ Len(steps) = 2
    /\ \E k \in 1 .. 2 : get_edge_data(path[k], path[k + 1])[1].length = NoLen
    /\ \E k \in 1 .. 2 :
          LET d == get_edge_data(path[k], path[k + 1])
          IN  Len(d) = 2 /\ d[1].length > d[2].length /\ d[2].length # NoLen

\* C10: the path starts at the source, ends at the destination, each
\* consecutive pair is a directed edge, and the coordinate list has one entry
\* per path node in the same order.
C10_PathFollowsEdges ==
    Done =>
        /\ Len(path) >= 1
        /\ path[1] = src_node
        /\ path[Len(path)] = dst_node
        /\ \A k \in 1 .. Len(path) - 1 : HasEdge(path[k], path[k + 1])
        /\ Len(coords) = Len(path)
        /\ \A k \in 1 .. Len(path) : coords[k] = <<nodes[path[k]].y, nodes[path[k]].x>>

\* a path of three nodes with its three coordinates
C10_Witness == Done /\ Len(path) = 3 /\ Len(coords) = 3

\* the segment from node a to node b has no extent: its bearing is degenerate
ZeroLength(a, b) == nodes[a] = nodes[b]

\* C11: a step after the first whose previous edge, or whose own edge, is a
\* zero-length segment is classified Straight (and the step loop runs to its
\* end, nothing being raised on the way).
C11_DegenerateIsStraight ==
    Done =>
        \A k \in 2 .. Len(steps) :
            (ZeroLength(path[k - 1], path[k]) \/ ZeroLength(path[k], path[k + 1]))
                => steps[k].turn = "Go straight"

====
